---------------------------- MODULE Spec2Model ----------------------------
(***************************************************************************)
(* update_html.py: a one-shot script that reads index.html as text,        *)
(* applies fifteen literal str.replace calls in source order and writes    *)
(* the result back to the same path.                                       *)
(*                                                                         *)
(* Documents are TLA+ strings, so every literal below is the literal of    *)
(* the script, character for character, and str.replace is modelled on     *)
(* characters.  A file holds the bytes of an ASCII document; text-mode     *)
(* I/O (universal newlines on read, os.linesep on write) is modelled by    *)
(* ReadText and WriteText.                                                 *)
(***************************************************************************)
EXTENDS Integers, Sequences, FiniteSets, TLC

(***************************************************************************)
(* The replacement rules: << search literal, replacement literal >>.       *)
(***************************************************************************)
\* lines 7-18
TooltipStructure ==
  << "<div id=\"universal-tooltip\" class=\"universal-tooltip hidden\">\n            <div class=\"tooltip-title\" id=\"tt-title\"></div>\n            <div class=\"tooltip-desc\" id=\"tt-desc\"></div>\n        </div>",
     "<div id=\"universal-tooltip\" class=\"universal-tooltip hidden\">\n            <div class=\"tooltip-title\" id=\"tt-title\"></div>\n            <div class=\"tooltip-line\" id=\"tt-line1\"></div>\n            <div class=\"tooltip-line\" id=\"tt-line2\"></div>\n            <div class=\"tooltip-line\" id=\"tt-line3\"></div>\n        </div>" >>

\* lines 21-26
SectorStabilityPretty ==
  << "data-tooltip=\"Sector Stability\"\n                                    data-tooltip-desc=\"Aggregated probabilistic risk score across KP segments.\"",
     "data-tooltip=\"Sector Stability\"\n                                    data-tooltip-short=\"Aggregated probabilistic risk score.\" data-tooltip-tech=\"Derived from Bayesian risk modeling across KP segments.\"" >>

\* lines 27-30
SectorStabilityFlat ==
  << "data-tooltip=\"Sector Stability\" data-tooltip-desc=\"Aggregated probabilistic risk score across KP segments.\"",
     "data-tooltip=\"Sector Stability\" data-tooltip-short=\"Aggregated probabilistic risk score.\" data-tooltip-tech=\"Derived from Bayesian risk modeling across KP segments.\"" >>

\* lines 33-38
HazardEnginePretty ==
  << "data-tooltip=\"Hazard Engine\"\n                            data-tooltip-desc=\"Inject and simulate physical failure events.\"",
     "data-tooltip=\"Hazard Engine\"\n                            data-tooltip-short=\"Inject simulated failure scenarios.\" data-tooltip-tech=\"Used to test system detection and response capability.\"" >>

\* lines 39-42
HazardEngineFlat ==
  << "data-tooltip=\"Hazard Engine\" data-tooltip-desc=\"Inject and simulate physical failure events.\"",
     "data-tooltip=\"Hazard Engine\" data-tooltip-short=\"Inject simulated failure scenarios.\" data-tooltip-tech=\"Used to test system detection and response capability.\"" >>

\* a replacement that loses the element's text
BioEnergyHarvestNoText ==
  << "<span>BIO-ALGAE HARVEST</span>",
     "<span class=\"neptune-tooltip\" data-tooltip=\"Bio-Energy Harvest\" data-tooltip-short=\"Marine algae-based supplemental energy system.\" data-tooltip-tech=\"Reduces reliance on external power sources.\"></span>" >>

\* lines 45-48
BioEnergyHarvest ==
  << "<span>BIO-ALGAE HARVEST</span>",
     "<span class=\"neptune-tooltip\" data-tooltip=\"Bio-Energy Harvest\" data-tooltip-short=\"Marine algae-based supplemental energy system.\" data-tooltip-tech=\"Reduces reliance on external power sources.\">BIO-ALGAE HARVEST</span>" >>

\* lines 51-54
AUVFleet ==
  << "<div class=\"accordion-item\" data-panel=\"fleet-panel\">",
     "<div class=\"accordion-item neptune-tooltip\" data-panel=\"fleet-panel\" data-tooltip=\"AUV Fleet\" data-tooltip-short=\"Monitor AUV battery, readiness, and mission status.\" data-tooltip-tech=\"Used to assess deployment capability.\">" >>

\* lines 57-62
IsolationPretty ==
  << "<button id=\"btn-approve-multi\" class=\"btn critical-btn\">Approve Isolation + Multi-AUV\n                        Deployment</button>",
     "<button id=\"btn-approve-multi\" class=\"btn critical-btn neptune-tooltip\" data-tooltip=\"Isolation Control\" data-tooltip-short=\"Temporarily close upstream and downstream valves.\" data-tooltip-tech=\"Prevents escalation of structural damage.\" data-tooltip-use=\"Execute immediately upon critical threshold breach.\">Approve Isolation + Multi-AUV \n                        Deployment</button>" >>

\* lines 63-66
IsolationFlat ==
  << "<button id=\"btn-approve-multi\" class=\"btn critical-btn\">Approve Isolation + Multi-AUV Deployment</button>",
     "<button id=\"btn-approve-multi\" class=\"btn critical-btn neptune-tooltip\" data-tooltip=\"Isolation Control\" data-tooltip-short=\"Temporarily close upstream and downstream valves.\" data-tooltip-tech=\"Prevents escalation of structural damage.\" data-tooltip-use=\"Execute immediately upon critical threshold breach.\">Approve Isolation + Multi-AUV Deployment</button>" >>

\* lines 69-72
GlobalCurvatureMode ==
  << "data-tooltip=\"Global Curvature Mode\" data-tooltip-desc=\"View the entire 1900km corridor.\"",
     "data-tooltip=\"Global Curvature Mode\" data-tooltip-short=\"Switch camera and system visualization modes.\" data-tooltip-tech=\"Changes operational view without affecting system logic.\" data-tooltip-use=\"View the entire 1900km corridor.\"" >>

\* a pretty-printed variant whose replacement lacks the usage line
SectorModePrettyNoUse ==
  << "data-tooltip=\"Sector Mode\"\n                        data-tooltip-desc=\"Zoom to specific operating sectors.\"",
     "data-tooltip=\"Sector Mode\"\n                        data-tooltip-short=\"Switch camera and system visualization modes.\" data-tooltip-tech=\"Changes operational view without affecting system logic.\"" >>

\* lines 73-78
SectorModePretty ==
  << "data-tooltip=\"Sector Mode\"\n                        data-tooltip-desc=\"Zoom to specific operating sectors.\"",
     "data-tooltip=\"Sector Mode\"\n                        data-tooltip-short=\"Switch camera and system visualization modes.\" data-tooltip-tech=\"Changes operational view without affecting system logic.\" data-tooltip-use=\"Zoom to specific operating sectors.\"" >>

\* lines 79-82
SectorModeFlat ==
  << "data-tooltip=\"Sector Mode\" data-tooltip-desc=\"Zoom to specific operating sectors.\"",
     "data-tooltip=\"Sector Mode\" data-tooltip-short=\"Switch camera and system visualization modes.\" data-tooltip-tech=\"Changes operational view without affecting system logic.\" data-tooltip-use=\"Zoom to specific operating sectors.\"" >>

\* lines 83-88
InspectionModePretty ==
  << "data-tooltip=\"Inspection Mode\"\n                        data-tooltip-desc=\"Close-up seabed visualization.\"",
     "data-tooltip=\"Inspection Mode\"\n                        data-tooltip-short=\"Switch camera and system visualization modes.\" data-tooltip-tech=\"Changes operational view without affecting system logic.\" data-tooltip-use=\"Close-up seabed visualization.\"" >>

\* lines 89-92
InspectionModeFlat ==
  << "data-tooltip=\"Inspection Mode\" data-tooltip-desc=\"Close-up seabed visualization.\"",
     "data-tooltip=\"Inspection Mode\" data-tooltip-short=\"Switch camera and system visualization modes.\" data-tooltip-tech=\"Changes operational view without affecting system logic.\" data-tooltip-use=\"Close-up seabed visualization.\"" >>

\* a new marker that still contains the old one
SweepKeepsMarker ==
  << "data-tooltip-desc", "data-tooltip-desc-short" >>

\* line 95
Sweep ==
  << "data-tooltip-desc",
     "data-tooltip-short" >>

\* the generic sweep run before the context-specific rules
SweepFirstOrder ==
  << Sweep,
     TooltipStructure,
     SectorStabilityPretty, SectorStabilityFlat,
     HazardEnginePretty, HazardEngineFlat,
     BioEnergyHarvest,
     AUVFleet,
     IsolationPretty, IsolationFlat,
     GlobalCurvatureMode,
     SectorModePretty, SectorModeFlat,
     InspectionModePretty, InspectionModeFlat >>

Rules ==
  << TooltipStructure,
     SectorStabilityPretty, SectorStabilityFlat,
     HazardEnginePretty, HazardEngineFlat,
     BioEnergyHarvest,
     AUVFleet,
     IsolationPretty, IsolationFlat,
     GlobalCurvatureMode,
     SectorModePretty, SectorModeFlat,
     InspectionModePretty, InspectionModeFlat,
     Sweep >>

(***************************************************************************)
(* str.replace(old, new) for a non-empty old: the occurrences of old are   *)
(* found left to right, each search resuming after the previous match.     *)
(***************************************************************************)
Find(s, old) ==
  LET hits == {i \in 1..(Len(s) - Len(old) + 1) :
                 SubSeq(s, i, i + Len(old) - 1) = old}
  IN  IF hits = {} THEN 0 ELSE CHOOSE i \in hits : \A j \in hits : i <= j

Contains(s, old) == Find(s, old) # 0

\* str.replace(old, new, 1): only the first occurrence
ReplaceFirstOnly(s, old, new) ==
  LET i == Find(s, old)
  IN  IF i = 0 THEN s
      ELSE SubSeq(s, 1, i - 1) \o new \o SubSeq(s, i + Len(old), Len(s))

RECURSIVE Replace(_, _, _)
Replace(s, old, new) ==
  LET i == Find(s, old)
  IN  IF i = 0 THEN s
      ELSE SubSeq(s, 1, i - 1) \o new
             \o Replace(SubSeq(s, i + Len(old), Len(s)), old, new)

\* html = html.replace(search, replacement) for rule number k
ApplyRule(k, s) == Replace(s, Rules[k][1], Rules[k][2])

\* the replace statements of lines 7-95 in the order given, from rule k on;
\* an empty text stays empty
RECURSIVE ApplyFrom(_, _, _)
ApplyFrom(order, k, s) ==
  IF k > Len(order) \/ Len(s) = 0 THEN s
  ELSE LET t == Replace(s, order[k][1], order[k][2])
       IN  IF Len(t) = 0 THEN t ELSE ApplyFrom(order, k + 1, t)

Rewrite(s) == ApplyFrom(Rules, 1, s)

(***************************************************************************)
(* Text-mode I/O.  open(..., "r") has newline=None: "\r\n" and "\r" are    *)
(* read as "\n".  open(..., "w") has newline=None: "\n" is written as      *)
(* os.linesep.  The documents are ASCII, on which UTF-8 is the identity.   *)
(***************************************************************************)
ReadText(bytes) == Replace(Replace(bytes, "\r\n", "\n"), "\r", "\n")

WriteText(text, sep) == IF sep = "\n" THEN text ELSE Replace(text, "\n", sep)

\* a write(2) at offset 0 of a file opened with O_TRUNC earlier
WriteAt0(content, data) ==
  data \o SubSeq(content, Len(data) + 1, Len(content))

(***************************************************************************)
(* Bounds and the documents the runs start from.                           *)
(***************************************************************************)
MaxFrags == 1
MaxRuns == 2

Procs == {1, 2}
LineSeps == {"\n", "\r\n"}
Faults == {"none", "missing", "unreadable", "undecodable", "unwritable"}

\* Snippets of index.html a document is put together from: every search
\* literal alone, several of them on one page, a page written with CRLF line
\* ends, attributes only the sweep renames, text no rule matches, and a
\* fragment that is migrated already.
GcmPretty ==
  "data-tooltip=\"Global Curvature Mode\"\n                        data-tooltip-desc=\"View the entire 1900km corridor.\""

Fragments ==
  { TooltipStructure[1],
    SectorStabilityPretty[1],
    SectorStabilityFlat[1],
    HazardEngineFlat[1],
    BioEnergyHarvest[1],
    AUVFleet[1],
    IsolationFlat[1],
    SectorModePretty[1],
    InspectionModePretty[1],
    "<div " \o HazardEnginePretty[1] \o ">\n" \o IsolationPretty[1] \o "</div>",
    "<a " \o GlobalCurvatureMode[1] \o "></a><a " \o SectorModeFlat[1]
       \o "></a><a " \o InspectionModeFlat[1] \o "></a>",
    "<b " \o Replace(SectorStabilityPretty[1], "\n", "\r\n") \o "></b>\r\n",
    "<a " \o GcmPretty \o "></a>",
    "<p>ok</p>\n" \o BioEnergyHarvest[1] \o "\n<p>ok</p>",
    "<i data-tooltip-desc=\"Valve state.\"></i>",
    "<i data-tooltip-desc=\"Pump.\"></i>\n<i data-tooltip=\"Inspection Mode\" data-tooltip-desc=\"Zoom.\"></i>",
    "<i data-tooltip-desc=\"see data-tooltip-desc\"></i>",
    "<i data-tooltip-desc=\"<span>BIO-ALGAE HARVEST</span>\"></i>",
    "<p>ok</p>\r\n",
    "<p>ok</p>\n",
    "<span>BIO-ALGAE",
    " HARVEST</span>",
    SectorStabilityFlat[2] }

RECURSIVE DocsOf(_)
DocsOf(n) ==
  IF n = 0 THEN {""}
  ELSE LET d == DocsOf(n - 1)
       IN  d \cup {a \o f : a \in d, f \in Fragments}

Docs == DocsOf(MaxFrags)

VARIABLES
  disk,        \* the bytes of index.html
  linesep,     \* os.linesep of the platform
  fault,       \* what is wrong with index.html, if anything
  pc,          \* pc[p]: the statement run p executes next
  next,        \* next[p]: the number of the next replace statement
  html,        \* html[p]: the variable html of run p
  err,         \* err[p]: the exception that ended run p
  orig,        \* the bytes of index.html before any run
  readText,    \* readText[p]: what f.read() returned in run p
  lastWriter,  \* the run whose f.write came last, 0 if none
  run,         \* the number of runs started one after the other
  firstOut     \* the bytes of index.html when the first run ended

vars == << disk, linesep, fault, pc, next, html, err, orig, readText,
           lastWriter, run, firstOut >>

InitWith(docs, start, faults) ==
  /\ disk \in docs
  /\ linesep \in LineSeps
  /\ fault \in faults
  /\ pc = [p \in Procs |-> IF p \in start THEN "open_r" ELSE "idle"]
  /\ next = [p \in Procs |-> 1]
  /\ html = [p \in Procs |-> ""]
  /\ err = [p \in Procs |-> "none"]
  /\ orig = disk
  /\ readText = [p \in Procs |-> ""]
  /\ lastWriter = 0
  /\ run = 1
  /\ firstOut = ""

\* one run, started again when it has ended; index.html is in order
Init == InitWith(Docs, {1}, {"none"})

\* one run; index.html may be missing, unreadable, undecodable or read-only
InitIO == InitWith(Fragments, {1}, Faults)

\* two runs at once on the same index.html
InitConc == InitWith(Fragments \cup {""}, Procs, {"none"})

Raise(p, e) ==
  /\ pc' = [pc EXCEPT ![p] = "failed"]
  /\ err' = [err EXCEPT ![p] = e]

\* line 3: open("index.html", "r", encoding="utf-8")
OpenRead(p) ==
  /\ pc[p] = "open_r"
  /\ IF fault = "missing" THEN Raise(p, "FileNotFoundError")
     ELSE IF fault = "unreadable" THEN Raise(p, "PermissionError")
     ELSE pc' = [pc EXCEPT ![p] = "read"] /\ err' = err
  /\ UNCHANGED << disk, linesep, fault, next, html, orig, readText,
                  lastWriter, run, firstOut >>

\* a read with errors="ignore": undecodable bytes are dropped, the run goes on
ReadIgnoringErrors(p) ==
  /\ pc[p] = "read"
  /\ html' = [html EXCEPT ![p] = ReadText(disk)]
  /\ readText' = [readText EXCEPT ![p] = ReadText(disk)]
  /\ pc' = [pc EXCEPT ![p] = "rules"]
  /\ UNCHANGED << disk, linesep, fault, next, err, orig, lastWriter, run,
                  firstOut >>

\* line 4: html = f.read()
Read(p) ==
  /\ pc[p] = "read"
  /\ IF fault = "undecodable"
     THEN Raise(p, "UnicodeDecodeError") /\ UNCHANGED << html, readText >>
     ELSE /\ html' = [html EXCEPT ![p] = ReadText(disk)]
          /\ readText' = [readText EXCEPT ![p] = ReadText(disk)]
          /\ pc' = [pc EXCEPT ![p] = "rules"]
          /\ err' = err
  /\ UNCHANGED << disk, linesep, fault, next, orig, lastWriter, run, firstOut >>

\* every rule applied to the text read, not to the result of the rule before
ReplaceStepOnOriginal(p) ==
  /\ pc[p] = "rules"
  /\ html' = [html EXCEPT ![p] = ApplyRule(next[p], readText[p])]
  /\ next' = [next EXCEPT ![p] = next[p] + 1]
  /\ pc' = [pc EXCEPT ![p] = IF next[p] = Len(Rules) THEN "open_w" ELSE "rules"]
  /\ UNCHANGED << disk, linesep, fault, err, orig, readText, lastWriter,
                  run, firstOut >>

\* lines 7-95: html = html.replace(...), one statement at a time
ReplaceStep(p) ==
  /\ pc[p] = "rules"
  /\ html' = [html EXCEPT ![p] = ApplyRule(next[p], html[p])]
  /\ next' = [next EXCEPT ![p] = next[p] + 1]
  /\ pc' = [pc EXCEPT ![p] = IF next[p] = Len(Rules) THEN "open_w" ELSE "rules"]
  /\ UNCHANGED << disk, linesep, fault, err, orig, readText, lastWriter,
                  run, firstOut >>

\* line 97: open("index.html", "w", encoding="utf-8") truncates the file
OpenWrite(p) ==
  /\ pc[p] = "open_w"
  /\ IF fault = "unwritable"
     THEN Raise(p, "PermissionError") /\ disk' = disk
     ELSE disk' = "" /\ pc' = [pc EXCEPT ![p] = "write"] /\ err' = err
  /\ UNCHANGED << linesep, fault, next, html, orig, readText, lastWriter,
                  run, firstOut >>

\* the file opened with "a": the text is added to what the file holds
WriteAppending(p) ==
  /\ pc[p] = "write"
  /\ disk' = disk \o WriteText(html[p], linesep)
  /\ lastWriter' = p
  /\ pc' = [pc EXCEPT ![p] = "done"]
  /\ UNCHANGED << linesep, fault, next, html, err, orig, readText, run,
                  firstOut >>

\* line 98: f.write(html), flushed when the with block closes the file
Write(p) ==
  /\ pc[p] = "write"
  /\ disk' = WriteAt0(disk, WriteText(html[p], linesep))
  /\ lastWriter' = p
  /\ pc' = [pc EXCEPT ![p] = "done"]
  /\ UNCHANGED << linesep, fault, next, html, err, orig, readText, run,
                  firstOut >>

\* the script is started again after it has ended
Rerun(p) ==
  /\ pc[p] = "done"
  /\ \A q \in Procs \ {p} : pc[q] = "idle"
  /\ run < MaxRuns
  /\ run' = run + 1
  /\ firstOut' = IF run = 1 THEN disk ELSE firstOut
  /\ pc' = [pc EXCEPT ![p] = "open_r"]
  /\ next' = [next EXCEPT ![p] = 1]
  /\ html' = [html EXCEPT ![p] = ""]
  /\ readText' = [readText EXCEPT ![p] = ""]
  /\ UNCHANGED << disk, linesep, fault, err, orig, lastWriter >>

Step(p) ==
  \/ OpenRead(p)
  \/ Read(p)
  \/ ReplaceStep(p)
  \/ OpenWrite(p)
  \/ Write(p)

Next == \E p \in Procs : Step(p) \/ Rerun(p)

NextConc == \E p \in Procs : Step(p)

Spec == Init /\ [][Next]_vars

SpecIO == InitIO /\ [][Next]_vars

SpecConc == InitConc /\ [][NextConc]_vars

(***************************************************************************)
(* Properties.                                                             *)
(***************************************************************************)
Search(k) == Rules[k][1]

\* some rule's search literal occurs in s
AnyLiteral(s) == \E k \in 1..Len(Rules) : Contains(s, Search(k))

\* run p has finished the replace statements
Rewritten(p) == pc[p] \in {"open_w", "write", "done"}

\* C1: a second run of the script right after the first leaves index.html as
\* the first run left it, and every replace of the second run is a no-op: no
\* search literal occurs in the text the second run reads.
C1_Idempotence ==
  /\ (run >= 2 /\ pc[1] = "rules" /\ next[1] = 1) => ~AnyLiteral(readText[1])
  /\ (run >= 2 /\ (pc[1] = "rules" \/ Rewritten(1))) => html[1] = readText[1]
  /\ (run >= 2 /\ pc[1] = "done") => disk = firstOut

C1_Witness ==
  /\ run = 2
  /\ pc[1] = "done"
  /\ AnyLiteral(ReadText(orig))
  /\ disk # orig

\* C2: a document in which no search literal occurs is written back
\* identical, byte for byte, to the file that was read.
C2_NoMatchByteIdentical ==
  (run = 1 /\ pc[1] = "done" /\ ~AnyLiteral(orig) /\ ~AnyLiteral(ReadText(orig)))
     => disk = orig

\* C8: the text written is the fold of the fifteen rules, in source order,
\* over the text read; rule N works on the result of rule N-1; the sweep is
\* the last rule before the write.
C8_SequentialPipeline ==
  /\ Rules[Len(Rules)] = Sweep
  /\ pc[1] = "rules" => next[1] \in 1..Len(Rules)
  /\ (pc[1] = "rules" /\ next[1] = 3) =>
        html[1] = ApplyRule(2, ApplyRule(1, readText[1]))
  /\ Rewritten(1) => next[1] = Len(Rules) + 1
  /\ pc[1] = "done" =>
        /\ html[1] = Rewrite(readText[1])
        /\ disk = WriteText(html[1], linesep)

C8_Witness ==
  /\ pc[1] = "done"
  /\ run = 1
  /\ \E j, k \in 1..Len(Rules) :
        /\ j < k
        /\ Contains(readText[1], Search(j))
        /\ Contains(readText[1], Search(k))

\* C10: after a run, no occurrence of data-tooltip-desc is left in the text
\* written back.
C10_NoDescLeft ==
  /\ Rewritten(1) => ~Contains(html[1], "data-tooltip-desc")
  /\ pc[1] = "done" => ~Contains(disk, "data-tooltip-desc")

C10_Witness ==
  /\ pc[1] = "done"
  /\ run = 1
  /\ Contains(orig, "data-tooltip-desc")
  /\ ~ \E k \in 1..(Len(Rules) - 1) : Contains(ReadText(orig), Search(k))

\* the attribute the sweep renames, with its opening quote, and its new name
DescAttr == "data-tooltip-desc=\""
ShortAttr == "data-tooltip-short=\""

\* the places of s where old occurs
Occurrences(s, old) ==
  {i \in 1..(Len(s) - Len(old) + 1) : SubSeq(s, i, i + Len(old) - 1) = old}

\* the occurrences data-tooltip-desc="X" of s: where each starts, its X, the
\* text before it and the text after its closing quote
DescAttrs(s) ==
  { [at |-> i,
     x |-> SubSeq(s, i + Len(DescAttr),
                  i + Len(DescAttr) + Find(SubSeq(s, i + Len(DescAttr), Len(s)), "\"") - 2),
     pre |-> SubSeq(s, 1, i - 1),
     post |-> SubSeq(s, i + Len(DescAttr)
                          + Find(SubSeq(s, i + Len(DescAttr), Len(s)), "\""), Len(s))] :
    i \in {j \in Occurrences(s, DescAttr) :
             Contains(SubSeq(s, j + Len(DescAttr), Len(s)), "\"")} }

\* the last character of occurrence a
EndOf(a) == a.at + Len(DescAttr) + Len(a.x)

\* occurrence a of s lies inside a match of a context-specific rule
PartOfMatch(s, a) ==
  \E k \in 1..(Len(Rules) - 1) : \E m \in Occurrences(s, Search(k)) :
     m <= a.at /\ EndOf(a) <= m + Len(Search(k)) - 1

\* a match of a context-specific rule and occurrence a of s share a character
Overlapped(s, a) ==
  \E k \in 1..(Len(Rules) - 1) : \E m \in Occurrences(s, Search(k)) :
     m <= EndOf(a) /\ a.at <= m + Len(Search(k)) - 1

\* what the run makes of occurrence a: the attribute renamed, X as it was,
\* the text around it rewritten on its own
SweptInPlace(a) ==
  Rewrite(a.pre) \o ShortAttr \o a.x \o "\"" \o Rewrite(a.post)

\* C3 as stated: every data-tooltip-desc="X" of the text read that is not
\* part of a match of a context-specific rule comes out as
\* data-tooltip-short="X", for every X.
C3_SweepKeepsAnyValue ==
  pc[1] = "done" =>
     \A a \in DescAttrs(readText[1]) :
        ~PartOfMatch(readText[1], a) => html[1] = SweptInPlace(a)

\* C3: every data-tooltip-desc="X" of the text read that no match of a
\* context-specific rule overlaps, and whose X does not itself contain
\* data-tooltip-desc, comes out as data-tooltip-short="X" with X as it was.
C3_SweepKeepsPlainValue ==
  pc[1] = "done" =>
     \A a \in DescAttrs(readText[1]) :
        (~Overlapped(readText[1], a) /\ ~Contains(a.x, Sweep[1]))
           => html[1] = SweptInPlace(a)

C3_Witness ==
  /\ pc[1] = "done"
  /\ run = 1
  /\ \E a \in DescAttrs(readText[1]) :
        /\ ~Overlapped(readText[1], a)
        /\ ~Contains(a.x, Sweep[1])
        /\ a.pre # ""
        /\ Contains(html[1], ShortAttr \o a.x \o "\"")

\* the element the Bio-Energy rule is to produce
BioSpan ==
  "<span class=\"neptune-tooltip\" data-tooltip=\"Bio-Energy Harvest\" data-tooltip-short=\"Marine algae-based supplemental energy system.\" data-tooltip-tech=\"Reduces reliance on external power sources.\">BIO-ALGAE HARVEST</span>"

\* <span>BIO-ALGAE HARVEST</span> is the only search literal that occurs in s
OnlyBio(s) ==
  /\ Contains(s, "<span>BIO-ALGAE HARVEST</span>")
  /\ \A k \in 1..Len(Rules) :
        Contains(s, Search(k)) => Search(k) = "<span>BIO-ALGAE HARVEST</span>"

\* s with the text from place i to place j - 1 replaced by new
Splice(s, i, j, new) == SubSeq(s, 1, i - 1) \o new \o SubSeq(s, j, Len(s))

\* C4: when <span>BIO-ALGAE HARVEST</span> is the only search literal in the
\* text read, the text written has the tooltip span in its place, the inner
\* text kept, and every other character as it was.
C4_BioEnergyScenario ==
  (pc[1] = "done" /\ OnlyBio(readText[1])
     /\ Cardinality(Occurrences(readText[1], "<span>BIO-ALGAE HARVEST</span>")) = 1)
   => html[1] = Splice(readText[1],
                       Find(readText[1], "<span>BIO-ALGAE HARVEST</span>"),
                       Find(readText[1], "<span>BIO-ALGAE HARVEST</span>")
                          + Len("<span>BIO-ALGAE HARVEST</span>"),
                       BioSpan)

C4_Witness ==
  /\ pc[1] = "done"
  /\ run = 1
  /\ OnlyBio(readText[1])
  /\ Find(readText[1], "<span>BIO-ALGAE HARVEST</span>") > 1
  /\ Contains(html[1], BioSpan)

\* the context-specific rules whose search literal mentions data-tooltip-desc
DescRules == {k \in 1..(Len(Rules) - 1) : Contains(Search(k), Sweep[1])}

\* C5: when the text read holds the search literal of a context-specific
\* rule that mentions data-tooltip-desc, running the sweep first gives
\* another result than the order of the script.
C5_OrderSensitive ==
  (pc[1] = "done" /\ \E k \in DescRules : Contains(readText[1], Search(k)))
     => html[1] # ApplyFrom(SweepFirstOrder, 1, readText[1])

C5_Witness ==
  /\ pc[1] = "done"
  /\ Cardinality(DescRules) = 9
  /\ Contains(readText[1], HazardEnginePretty[1])
  /\ Contains(html[1], HazardEnginePretty[2])

\* the targets that have a pretty-printed and a flattened rule
Variants ==
  << << SectorStabilityPretty, SectorStabilityFlat >>,
     << HazardEnginePretty, HazardEngineFlat >>,
     << IsolationPretty, IsolationFlat >>,
     << SectorModePretty, SectorModeFlat >>,
     << InspectionModePretty, InspectionModeFlat >> >>

\* s with every pretty-printed target snippet in its flattened form
RECURSIVE FlattenFrom(_, _)
FlattenFrom(v, s) ==
  IF v > Len(Variants) \/ Len(s) = 0 THEN s
  ELSE LET t == Replace(s, Variants[v][1][1], Variants[v][2][1])
       IN  IF Len(t) = 0 THEN t ELSE FlattenFrom(v + 1, t)

Flatten(s) == FlattenFrom(1, s)

HasPretty(s) == \E v \in 1..Len(Variants) : Contains(s, Variants[v][1][1])

\* s with every run of spaces and line breaks as one space
RECURSIVE Squeeze(_)
Squeeze(s) == IF Contains(s, "  ") THEN Squeeze(Replace(s, "  ", " ")) ELSE s

OneSpaced(s) == Squeeze(Replace(s, "\n", " "))

\* C6 as stated: a document with the pretty-printed form of a target is
\* rewritten to the same text as the document with the flattened form.
C6_VariantsSameText ==
  (pc[1] = "done" /\ HasPretty(readText[1]))
     => html[1] = Rewrite(Flatten(readText[1]))

\* C6: for the five targets that have both rules, the document with the
\* pretty-printed form and the document with the flattened form are
\* rewritten to texts that differ only in spaces and line breaks.
C6_VariantsSameUpToSpace ==
  (pc[1] = "done" /\ HasPretty(readText[1]))
     => OneSpaced(html[1]) = OneSpaced(Rewrite(Flatten(readText[1])))

C6_Witness ==
  /\ pc[1] = "done"
  /\ run = 1
  /\ \E v \in 1..Len(Variants) :
        /\ Contains(readText[1], Variants[v][1][1])
        /\ Contains(html[1], Variants[v][1][2])
        /\ Contains(Rewrite(Flatten(readText[1])), Variants[v][2][2])
  /\ html[1] # Rewrite(Flatten(readText[1]))

ReadFaults == {"missing", "unreadable", "undecodable"}

\* C7: a run ends with an error only when index.html cannot be opened, read
\* or opened for writing; when the open or the read fails no rule has been
\* applied, nothing was written and the file is as it was; nothing else,
\* a rule without a match included, ends a run with an error.
C7_IOFailure ==
  /\ pc[1] = "failed" =>
        /\ fault # "none"
        /\ err[1] \in {"FileNotFoundError", "PermissionError", "UnicodeDecodeError"}
        /\ disk = orig
  /\ (pc[1] = "failed" /\ fault \in ReadFaults) =>
        /\ html[1] = ""
        /\ next[1] = 1
        /\ lastWriter = 0
  /\ fault \in ReadFaults => pc[1] \in {"open_r", "read", "failed"}
  /\ fault = "none" => pc[1] # "failed" /\ err[1] = "none"
  /\ pc[1] # "failed" => err[1] = "none"

C7_Witness ==
  /\ pc[1] = "failed"
  /\ fault = "undecodable"
  /\ err[1] = "UnicodeDecodeError"
  /\ AnyLiteral(orig)

BothDone == \A p \in Procs : pc[p] = "done"

\* what a single run makes of the file the two runs started from
SingleRun == WriteText(Rewrite(ReadText(orig)), linesep)

\* C9 as stated: when both runs have ended, index.html holds what the run
\* that wrote last produced.
C9_LastWriterWins ==
  BothDone => disk = WriteText(html[lastWriter], linesep)

\* C9: when both runs have ended, index.html holds
\* what the run that wrote last produced, unless that run produced nothing
\* (it read the file while the other run had it truncated): its write does
\* not truncate again, and the file holds what the other run wrote, or
\* nothing.
C9_LastWriterWinsUnlessEmpty ==
  /\ BothDone =>
        IF html[lastWriter] # ""
        THEN disk = WriteText(html[lastWriter], linesep)
        ELSE \E q \in Procs : disk \in {"", WriteText(html[q], linesep)}

\* two runs leave something else than one run does
C9_Witness ==
  /\ BothDone
  /\ orig # ""
  /\ disk # SingleRun
  /\ html[lastWriter] = ""

=============================================================================
